---- MODULE Spec2Model ----
(***************************************************************************)
(* A model of the Triage API client (python/triage/client.py): request     *)
(* construction and authentication, JSON and raw-byte transport, error     *)
(* translation, multipart encoding, the two streaming generators           *)
(* (sample_events, kernel_report) and the paginated listings.              *)
(*                                                                         *)
(* One invocation of a Client method is one action; a generator is an      *)
(* action that creates it plus one action per next() and one for close().  *)
(* The server is the environment: every response is drawn with \E.         *)
(***************************************************************************)
EXTENDS Integers, Sequences, FiniteSets, TLC

VARIABLES
    token,      \* Client.token
    root_url,   \* Client.root_url (after rstrip)
    pc,         \* "idle", "submitted" (the caller holds a new sample's id), "done",
                \* or the live lazy object: "sample_events", "kernel_report", "paginator"
    held,       \* the sample id the caller took from a submission's result, and the method it came from
    op,         \* the method invoked last: its name and arguments
    requests,   \* the Request objects handed to urlopen during this invocation
    lastResp,   \* the response urlopen produced last during this invocation
    result,     \* how the invocation (or the last next()) ended
    gen,        \* the frame of the live generator
    conn,       \* the streaming connection: "none", "open", "released"
    pag,        \* the live Paginator
    out,        \* what a command of the CLI has printed and the files it has written
    flow        \* the frame of prompt_select_profile

vars == <<token, root_url, pc, held, op, requests, lastResp, result, gen, conn, pag, out, flow>>

(***************************************************************************)
(* Bounds of the model.                                                    *)
(***************************************************************************)
MaxBody == 4    \* longest streamed response body, in tokens
MaxTasks == 2   \* most tasks in an overview report
MaxItems == 4   \* most items in a server listing
MaxPage == 2    \* largest page size of a listing
MaxMax == 5     \* largest max given to a paginated listing
MaxFields == 3  \* most fields in a mapping given to the encoder
MaxEvents == 3  \* most lines in the event stream prompt_select_profile reads
MaxProfiles == 2 \* most profiles the account has when prompt_select_profile lists them

(***************************************************************************)
(* Values.                                                                 *)
(***************************************************************************)
None == [none |-> TRUE]

version == "alpha"

PyVersion == "3.8.5"

Tokens == {"tokenA", "tokenB"}

\* root_url arguments, as a host followed by its trailing characters
RootUrlArgs == {<<"https://api.tria.ge">>, <<"https://api.tria.ge", "/", "/">>}

SampleIds == {"200923-4zhlr84m42", "200923-esktrbc2a6"}

TaskIds == {"behavioral1", "behavioral2"}

Filenames == {"memory/dump.bin"}

Statuses == {200, 404, 500}

EmptyObj == [k \in {} |-> ""]

\* Platform strings, as sequences of characters.
PlatWindows == <<"w","i","n","d","o","w","s","7","_","x","6","4">>

PlatLinux == <<"l","i","n","u","x","_","a","m","d","6","4">>

PlatBoth == <<"l","i","n","u","x","-","o","n","-","w","i","n","d","o","w","s">>

PlatOther == <<"m","a","c","o","s">>

Platforms == {PlatWindows, PlatLinux, PlatBoth, PlatOther}

Needle_windows == <<"w","i","n","d","o","w","s">>

Needle_linux == <<"l","i","n","u","x">>

\* Python's `needle in hay` on strings.
StrIn(needle, hay) ==
    \E i \in 0..(Len(hay) - Len(needle)) :
        \A j \in 1..Len(needle) : hay[i + j] = needle[j]

TaskRecs == [name : TaskIds, platform : Platforms]

RECURSIVE SeqsUpTo(_, _)
SeqsUpTo(S, n) ==
    IF n = 0 THEN {<<>>}
    ELSE LET shorter == SeqsUpTo(S, n - 1)
         IN  shorter \cup {Append(s, x) : s \in {t \in shorter : Len(t) = n - 1}, x \in S}

Overviews == {[tasks |-> ts] : ts \in SeqsUpTo(TaskRecs, MaxTasks)}

ErrObjs ==
    { [error |-> "not_found", message |-> "sample missing"],
      [error |-> "internal", message |-> "try again"] }

SampleObj(id) == [id |-> id, status |-> "pending", kind |-> "file"]

\* JSON objects a server may answer with.
GenericObjs ==
    ErrObjs \cup {[message |-> "sample missing"], [error |-> "not_found"], EmptyObj}
        \cup {SampleObj(id) : id \in SampleIds}

JsonBody(obj) == [json |-> TRUE, obj |-> obj]

NotJsonBody == [json |-> FALSE, obj |-> [raw |-> "<html>Bad Gateway</html>"]]

HttpResp(status, body) == [kind |-> "http", status |-> status, body |-> body]

NetErr == [kind |-> "neterr"]

NoResp == [kind |-> "none"]

RespsOver(objs) ==
    {NetErr} \cup {HttpResp(s, b) : s \in Statuses, b \in {JsonBody(o) : o \in objs} \cup {NotJsonBody}}

GenericResps == RespsOver(GenericObjs)

OverviewResps == RespsOver(GenericObjs \cup Overviews)

(***************************************************************************)
(* Outcomes of a call.                                                     *)
(***************************************************************************)
Returned(v) == [type |-> "return", value |-> v]

Raised(e) == [type |-> "raise", exc |-> e]

NoResult == [type |-> "none"]

NoHeld == [id |-> "", by |-> ""]

\* prompt_select_profile is not running
NoFlow == [at |-> "none"]

\* nothing printed, no file written
NoOut == [stdout |-> <<>>, files |-> {}]

(***************************************************************************)
(* Transport.                                                              *)
(***************************************************************************)
RECURSIVE rstrip(_, _)
\* str.rstrip(ch) on a string given as its pieces
rstrip(s, ch) ==
    IF s # <<>> /\ s[Len(s)] = ch THEN rstrip(SubSeq(s, 1, Len(s) - 1), ch) ELSE s

RECURSIVE Join(_)
Join(s) == IF s = <<>> THEN "" ELSE Head(s) \o Join(Tail(s))

\* Client.__init__
ClientInit(tok, url) == [token |-> tok, root_url |-> Join(rstrip(url, "/"))]

\* Request.add_header
add_header(r, key, val) == [r EXCEPT !.headers = (key :> val) @@ r.headers]

\* new_request_headers, were the token a fixed one
new_request_headers_fixed(tok) ==
    ("Authorization" :> "Bearer tokenA")
        @@ ("User-Agent" :> ("Triage Python Client/" \o version \o " Python/" \o PyVersion))

\* the headers Client._new_request gives every request
new_request_headers(tok) ==
    ("Authorization" :> ("Bearer " \o tok))
        @@ ("User-Agent" :> ("Triage Python Client/" \o version \o " Python/" \o PyVersion))

\* Client._new_request
new_request(method, path, data) ==
    [ method |-> method,
      url |-> root_url \o path,
      headers |-> new_request_headers(token),
      data |-> data ]

Is2xx(status) == status >= 200 /\ status < 300

\* json.dumps: the text of a value
json_dumps(v) == [json_text_of |-> v]

\* json.load / json.loads of a response body
json_load(body) ==
    IF body.json THEN Returned(body.obj) ELSE Raised("JSONDecodeError")

\* ServerError.__init__: what `raise ServerError(err)` ends up raising
ServerError(err) ==
    LET b == json_load(err.body)
    IN  IF b.type = "raise" THEN b
        ELSE IF "error" \notin DOMAIN b.value THEN [type |-> "raise", exc |-> "KeyError", key |-> "error"]
        ELSE IF "message" \notin DOMAIN b.value THEN [type |-> "raise", exc |-> "KeyError", key |-> "message"]
        ELSE [ type |-> "raise", exc |-> "ServerError",
               status |-> err.status,
               kind |-> b.value["error"],
               message |-> b.value["message"] ]

\* ServerError.__str__
ServerError_str(e) ==
    "triage: " \o ToString(e.status) \o " " \o e.kind \o ": " \o e.message

\* urlopen(r) followed by json.load(f), with HTTPError turned into ServerError
open_json(resp) ==
    IF resp.kind = "neterr" THEN Raised("URLError")
    ELSE IF ~Is2xx(resp.status) THEN ServerError(resp)
    ELSE json_load(resp.body)

\* Client._req_json: the request it builds
req_json_request(method, path, data) ==
    IF data # None
    THEN add_header(new_request(method, path, json_dumps(data)),
                    "Content-Type", "application/json")
    ELSE new_request(method, path, None)

\* Client._req_json: the request handed to urlopen and what the call ends with
req_json(method, path, data, resp) ==
    [request |-> req_json_request(method, path, data), result |-> open_json(resp)]

\* The invocation `o` ends with `res`, having issued `reqs` and last received `resp`.
Finish(o, reqs, resp, res) ==
    /\ pc' = "done"
    /\ op' = o
    /\ requests' = reqs
    /\ lastResp' = resp
    /\ result' = res
    /\ UNCHANGED <<token, root_url, held, gen, conn, pag, out, flow>>

\* JsonCall, were a failed attempt made a second time
JsonCall_retry(o, method, path, data, resp) ==
    LET c == req_json(method, path, data, resp)
    IN  Finish(o, IF c.result.type = "raise" THEN <<c.request, c.request>> ELSE <<c.request>>,
               resp, c.result)

\* A JSON operation is one _req_json.
JsonCall(o, method, path, data, resp) ==
    LET c == req_json(method, path, data, resp)
    IN  Finish(o, <<c.request>>, resp, c.result)

(***************************************************************************)
(* The facade: JSON operations.                                            *)
(***************************************************************************)
Urls == {"http://www.google.com"}

ProfileLists == {<<>>, <<[profile |-> "w7_long", pick |-> "file1.exe"]>>}

PickLists == {<<>>, <<"file1.exe", "file2.exe">>}

submit_sample_url ==
    /\ pc = "idle"
    /\ \E url \in Urls, interactive \in BOOLEAN, profiles \in ProfileLists, resp \in GenericResps :
        JsonCall([name |-> "submit_sample_url", url |-> url],
                    "POST", "/v0/samples",
                    [kind |-> "url", url |-> url, interactive |-> interactive,
                     profiles |-> profiles], resp)

profile_path(sample_id) == "/v0/samples/" \o sample_id \o "/profile"

set_sample_profile_body(profiles) == [auto |-> FALSE, profiles |-> profiles]

set_sample_profile ==
    /\ pc \in {"idle", "submitted"}
    /\ \E sample_id \in SampleIds, profiles \in ProfileLists, resp \in GenericResps :
        /\ pc = "submitted" => sample_id = held.id
        /\ JsonCall([name |-> "set_sample_profile", sample_id |-> sample_id],
                    "POST", profile_path(sample_id),
                    set_sample_profile_body(profiles), resp)

\* set_sample_profile_automatically_body, were it to name profiles as well
set_sample_profile_automatically_body_both(pick) ==
    [auto |-> TRUE, pick |-> pick, profiles |-> <<>>]

set_sample_profile_automatically_body(pick) == [auto |-> TRUE, pick |-> pick]

set_sample_profile_automatically ==
    /\ pc \in {"idle", "submitted"}
    /\ \E sample_id \in SampleIds, pick \in PickLists, resp \in GenericResps :
        /\ pc = "submitted" => sample_id = held.id
        /\ JsonCall([name |-> "set_sample_profile_automatically", sample_id |-> sample_id],
                    "POST", profile_path(sample_id),
                    set_sample_profile_automatically_body(pick), resp)

sample_by_id ==
    /\ pc = "idle"
    /\ \E sample_id \in SampleIds, resp \in GenericResps :
        JsonCall([name |-> "sample_by_id", sample_id |-> sample_id],
                    "GET", "/v0/samples/" \o sample_id, None, resp)

delete_sample ==
    /\ pc = "idle"
    /\ \E sample_id \in SampleIds, resp \in GenericResps :
        JsonCall([name |-> "delete_sample", sample_id |-> sample_id],
                    "DELETE", "/v0/samples/" \o sample_id, None, resp)

static_report ==
    /\ pc = "idle"
    /\ \E sample_id \in SampleIds, resp \in GenericResps :
        JsonCall([name |-> "static_report", sample_id |-> sample_id],
                    "GET", "/v0/samples/" \o sample_id \o "/reports/static", None, resp)

overview_report_path(sample_id) == "/v1/samples/" \o sample_id \o "/overview.json"

overview_report ==
    /\ pc = "idle"
    /\ \E sample_id \in SampleIds, resp \in OverviewResps :
        JsonCall([name |-> "overview_report", sample_id |-> sample_id],
                    "GET", overview_report_path(sample_id), None, resp)

task_report ==
    /\ pc = "idle"
    /\ \E sample_id \in SampleIds, task_id \in TaskIds, resp \in GenericResps :
        JsonCall([name |-> "task_report", sample_id |-> sample_id, task_id |-> task_id],
                    "GET", "/v0/samples/" \o sample_id \o "/" \o task_id \o "/report_triage.json",
                    None, resp)

create_profile ==
    /\ pc = "idle"
    /\ \E network \in {"internet", "drop"}, resp \in GenericResps :
        JsonCall([name |-> "create_profile"],
                    "POST", "/v0/profiles",
                    [name |-> "w7_long", tags |-> <<"win7">>, network |-> network,
                     timeout |-> 120], resp)

delete_profile ==
    /\ pc = "idle"
    /\ \E profile_id \in {"w7_long"}, resp \in GenericResps :
        JsonCall([name |-> "delete_profile"],
                    "DELETE", "/v0/profiles/" \o profile_id, None, resp)

(***************************************************************************)
(* The facade: raw-byte operations.                                        *)
(***************************************************************************)
\* open_file, were an HTTPError turned into ServerError as _req_json does
open_file_decoding(resp) ==
    IF resp.kind = "neterr" THEN Raised("URLError")
    ELSE IF ~Is2xx(resp.status) THEN ServerError(resp)
    ELSE Returned([bytes_of |-> resp.body])

\* urlopen(r) followed by f.read(): an HTTPError or URLError is not caught;
\* the HTTPError is the response itself, its body unread
open_file(resp) ==
    IF resp.kind = "neterr" THEN Raised("URLError")
    ELSE IF ~Is2xx(resp.status)
    THEN [type |-> "raise", exc |-> "HTTPError", status |-> resp.status, body |-> resp.body]
    ELSE Returned([bytes_of |-> resp.body])

\* Client._req_file
req_file(method, path, resp) ==
    [request |-> new_request(method, path, None), result |-> open_file(resp)]

FileCall(o, method, path, resp) ==
    LET c == req_file(method, path, resp)
    IN  Finish(o, <<c.request>>, resp, c.result)

sample_task_file ==
    /\ pc = "idle"
    /\ \E sample_id \in SampleIds, task_id \in TaskIds, filename \in Filenames, resp \in GenericResps :
        FileCall([name |-> "sample_task_file", sample_id |-> sample_id, task_id |-> task_id],
                    "GET", "/v0/samples/" \o sample_id \o "/" \o task_id \o "/" \o filename, resp)

sample_archive_tar ==
    /\ pc = "idle"
    /\ \E sample_id \in SampleIds, resp \in GenericResps :
        FileCall([name |-> "sample_archive_tar", sample_id |-> sample_id],
                    "GET", "/v0/samples/" \o sample_id \o "/archive", resp)

sample_archive_zip ==
    /\ pc = "idle"
    /\ \E sample_id \in SampleIds, resp \in GenericResps :
        FileCall([name |-> "sample_archive_zip", sample_id |-> sample_id],
                    "GET", "/v0/samples/" \o sample_id \o "/archive.zip", resp)

(***************************************************************************)
(* Line-delimited JSON streams.  A response body is a sequence of tokens:  *)
(* a JSON value (J1, J2), bytes that are no JSON (BAD), a space (SP), a    *)
(* newline (NL).                                                           *)
(***************************************************************************)
\* event objects, by their status: pending, static_analysis, failed, reported
JsonTokens == {"J1", "J2", "J3", "J4"}

\* what the bodies drawn for the two generators are made of
BodyTokens == {"J1", "J2", "BAD", "SP", "NL"}

StreamBodies == SeqsUpTo(BodyTokens, MaxBody)

\* the body of a streamed response
StreamBody(b) == [stream |-> b]

StreamResps ==
    {NetErr} \cup {HttpResp(s, StreamBody(<<>>)) : s \in Statuses \ {200}}
        \cup {HttpResp(200, StreamBody(b)) : b \in StreamBodies}

IsWs(t) == t \in {"SP", "NL"}

RECURSIVE lstrip_ws(_)
lstrip_ws(s) == IF s # <<>> /\ IsWs(Head(s)) THEN lstrip_ws(Tail(s)) ELSE s

RECURSIVE rstrip_ws(_)
rstrip_ws(s) ==
    IF s # <<>> /\ IsWs(s[Len(s)]) THEN rstrip_ws(SubSeq(s, 1, Len(s) - 1)) ELSE s

\* bytes.strip()
strip(s) == lstrip_ws(rstrip_ws(s))

\* the value a JSON token decodes to
JsonValue(t) ==
    IF t = "J1" THEN [status |-> "pending"]
    ELSE IF t = "J2" THEN [status |-> "static_analysis"]
    ELSE IF t = "J3" THEN [status |-> "failed"]
    ELSE [status |-> "reported"]

\* json.loads of one line: one JSON value, whitespace around it allowed
json_loads(line) ==
    LET t == strip(line)
    IN  IF Len(t) = 1 /\ t[1] \in JsonTokens THEN Returned(JsonValue(t[1]))
        ELSE Raised("JSONDecodeError")

\* the length of the next line of `rest`, its newline included (HTTPResponse.readline)
readline_len(rest) ==
    IF \E i \in 1..Len(rest) : rest[i] = "NL"
    THEN CHOOSE i \in 1..Len(rest) : rest[i] = "NL" /\ \A j \in 1..(i - 1) : rest[j] # "NL"
    ELSE Len(rest)

RECURSIVE split_nl(_)
\* bytes.split(b"\n")
split_nl(b) ==
    IF \E i \in 1..Len(b) : b[i] = "NL"
    THEN LET i == readline_len(b)
         IN  <<SubSeq(b, 1, i - 1)>> \o split_nl(SubSeq(b, i + 1, Len(b)))
    ELSE <<b>>

\* The generator frame no finally/with guards: once the frame is gone the
\* response object is closed when the runtime collects it, which may be at
\* once (reference counting) or not before the caller goes on.
Unscoped == {"open", "released"}

\* A generator step ends: the frame is `g`, the outcome `res`, and the
\* connection ends in one of `conns`.
GenStep(nextpc, o, reqs, resp, res, g, conns) ==
    /\ pc' = nextpc
    /\ op' = o
    /\ requests' = reqs
    /\ lastResp' = resp
    /\ result' = res
    /\ gen' = g
    /\ conn' \in conns
    /\ UNCHANGED <<token, root_url, held, pag, out, flow>>

NewGen ==
    [at |-> "new", rest |-> <<>>, idx |-> 0, yielded |-> <<>>, decoded |-> <<>>,
     task |-> None, path |-> ""]

\* Client.sample_events: calling it only creates the generator
sample_events ==
    /\ pc = "idle"
    /\ \E sample_id \in SampleIds :
        GenStep("sample_events", [name |-> "sample_events", sample_id |-> sample_id],
                   <<>>, NoResp, NoResult, NewGen, {"none"})

sample_events_request(sample_id) ==
    new_request("GET", "/v0/samples/" \o sample_id \o "/events", None)

\* One turn of `for r in urlopen(events): yield json.loads(r)` with `rest` unread.
sample_events_loop(g, rest) ==
    IF rest = <<>>
    THEN \* end of the response: the iteration ends and http.client closes it
         [pc |-> "done", result |-> [type |-> "stop"],
          gen |-> [g EXCEPT !.at = "ended", !.rest = <<>>], conns |-> {"released"}]
    ELSE LET n == readline_len(rest)
             line == SubSeq(rest, 1, n)
             r == json_loads(line)
             g2 == [g EXCEPT !.at = "loop", !.rest = SubSeq(rest, n + 1, Len(rest)),
                             !.decoded = Append(@, line)]
         IN  IF r.type = "raise"
             THEN [pc |-> "done", result |-> r, gen |-> [g2 EXCEPT !.at = "ended"],
                   conns |-> Unscoped]
             ELSE [pc |-> "sample_events", result |-> [type |-> "yield", value |-> r.value],
                   gen |-> [g2 EXCEPT !.yielded = Append(@, r.value)], conns |-> {"open"}]

\* next() on the generator of sample_events
sample_events_next ==
    /\ pc = "sample_events"
    /\ \/ /\ gen.at = "new"
          /\ \E resp \in StreamResps :
                LET rq == <<sample_events_request(op.sample_id)>>
                    g == [gen EXCEPT !.at = "ended"]
                IN  IF resp.kind = "neterr"
                    THEN GenStep("done", op, rq, resp, Raised("URLError"), g, {"none"})
                    ELSE IF ~Is2xx(resp.status)
                    THEN GenStep("done", op, rq, resp,
                                 [type |-> "raise", exc |-> "HTTPError", status |-> resp.status],
                                 g, {"none"})
                    ELSE LET s == sample_events_loop(gen, resp.body.stream)
                         IN  GenStep(s.pc, op, rq, resp, s.result, s.gen, s.conns)
       \/ /\ gen.at = "loop"
          /\ LET s == sample_events_loop(gen, gen.rest)
             IN  GenStep(s.pc, op, requests, lastResp, s.result, s.gen, s.conns)

\* The consumer stops iterating: close() on the generator, or dropping it.
sample_events_close ==
    /\ pc = "sample_events"
    /\ GenStep("done", op, requests, lastResp, [type |-> "closed"],
               [gen EXCEPT !.at = "ended"],
               IF gen.at = "loop" THEN Unscoped ELSE {"none"})

(***************************************************************************)
(* kernel_report.                                                          *)
(***************************************************************************)
\* Client.kernel_report: calling it only creates the generator
kernel_report ==
    /\ pc = "idle"
    /\ \E sample_id \in SampleIds, task_id \in TaskIds :
        GenStep("kernel_report",
                   [name |-> "kernel_report", sample_id |-> sample_id, task_id |-> task_id],
                   <<>>, NoResp, NoResult, NewGen, {"none"})

RECURSIVE find_task_first(_, _)
\* find_task, were it to settle for the first task when none has the name
find_task_first(tasks, task_id) ==
    IF tasks = <<>> THEN [type |-> "raise", exc |-> "ValueError", msg |-> "Task does not exist"]
    ELSE Returned(Head(tasks))

RECURSIVE find_task(_, _)
\* `for t in overview["tasks"]: if t["name"] == task_id: ... break; else: raise`
find_task(tasks, task_id) ==
    IF tasks = <<>> THEN [type |-> "raise", exc |-> "ValueError", msg |-> "Task does not exist"]
    ELSE IF Head(tasks).name = task_id THEN Returned(Head(tasks))
    ELSE find_task(Tail(tasks), task_id)

\* kernel_log_path, were "linux" tested before "windows"
kernel_log_path_linux_first(platform, sample_id, task_id) ==
    IF StrIn(Needle_linux, platform)
    THEN Returned("/v0/samples/" \o sample_id \o "/" \o task_id \o "/logs/stahp.json")
    ELSE IF StrIn(Needle_windows, platform)
    THEN Returned("/v0/samples/" \o sample_id \o "/" \o task_id \o "/logs/onemon.json")
    ELSE [type |-> "raise", exc |-> "ValueError", msg |-> "Platform not supported"]

\* the branch on task["platform"]
kernel_log_path(platform, sample_id, task_id) ==
    IF StrIn(Needle_windows, platform)
    THEN Returned("/v0/samples/" \o sample_id \o "/" \o task_id \o "/logs/onemon.json")
    ELSE IF StrIn(Needle_linux, platform)
    THEN Returned("/v0/samples/" \o sample_id \o "/" \o task_id \o "/logs/stahp.json")
    ELSE [type |-> "raise", exc |-> "ValueError", msg |-> "Platform not supported"]

\* kernel_report up to the choice of the log endpoint
kernel_report_lookup(sample_id, task_id, oresp) ==
    LET c == req_json("GET", overview_report_path(sample_id), None, oresp)
    IN  IF c.result.type = "raise" THEN [request |-> c.request, result |-> c.result]
        ELSE IF "tasks" \notin DOMAIN c.result.value
        THEN [request |-> c.request,
              result |-> [type |-> "raise", exc |-> "KeyError", key |-> "tasks"]]
        ELSE LET t == find_task(c.result.value["tasks"], task_id)
             IN  IF t.type = "raise" THEN [request |-> c.request, result |-> t]
                 ELSE [request |-> c.request, task |-> t.value,
                       result |-> kernel_log_path(t.value["platform"], sample_id, task_id)]

\* kernel_report_loop, were the blank entry handed to json.loads like any other
kernel_report_loop_no_sentinel(g, entries, i) ==
    IF i > Len(entries)
    THEN [pc |-> "done", result |-> [type |-> "stop"],
          gen |-> [g EXCEPT !.at = "ended", !.rest = entries, !.idx = i],
          conns |-> {"released"}]
    ELSE LET r == json_loads(entries[i])
             g2 == [g EXCEPT !.at = "loop", !.rest = entries, !.idx = i + 1,
                             !.decoded = Append(@, entries[i])]
         IN  IF r.type = "raise"
             THEN [pc |-> "done", result |-> r, gen |-> [g2 EXCEPT !.at = "ended"],
                   conns |-> {"released"}]
             ELSE [pc |-> "kernel_report", result |-> [type |-> "yield", value |-> r.value],
                   gen |-> [g2 EXCEPT !.yielded = Append(@, r.value)], conns |-> {"open"}]

\* One turn of the loop over f.read().split(b"\n") inside `with f:`, at entry i.
kernel_report_loop(g, entries, i) ==
    IF i > Len(entries) \/ strip(entries[i]) = <<>>
    THEN [pc |-> "done", result |-> [type |-> "stop"],
          gen |-> [g EXCEPT !.at = "ended", !.rest = entries, !.idx = i],
          conns |-> {"released"}]
    ELSE LET r == json_loads(entries[i])
             g2 == [g EXCEPT !.at = "loop", !.rest = entries, !.idx = i + 1,
                             !.decoded = Append(@, entries[i])]
         IN  IF r.type = "raise"
             THEN [pc |-> "done", result |-> r, gen |-> [g2 EXCEPT !.at = "ended"],
                   conns |-> {"released"}]
             ELSE [pc |-> "kernel_report", result |-> [type |-> "yield", value |-> r.value],
                   gen |-> [g2 EXCEPT !.yielded = Append(@, r.value)], conns |-> {"open"}]

\* next() on the generator of kernel_report.  The first next() runs the body
\* up to the first yield and blocks twice on the network: it is modelled in
\* three steps, this one up to the choice of the log endpoint (at = "lookup"),
\* kernel_report_urlopen and kernel_report_read.
kernel_report_next ==
    /\ pc = "kernel_report"
    /\ \/ /\ gen.at = "new"
          /\ \E oresp \in OverviewResps :
                LET k == kernel_report_lookup(op.sample_id, op.task_id, oresp)
                IN  IF k.result.type = "raise"
                    THEN GenStep("done", op, <<k.request>>, oresp, k.result,
                                 [gen EXCEPT !.at = "ended",
                                             !.task = IF "task" \in DOMAIN k THEN k.task ELSE None],
                                 {"none"})
                    ELSE GenStep("kernel_report", op, <<k.request>>, oresp, NoResult,
                                 [gen EXCEPT !.at = "lookup", !.task = k.task,
                                             !.path = k.result.value], {"none"})
       \/ /\ gen.at = "loop"
          /\ LET s == kernel_report_loop(gen, gen.rest, gen.idx)
             IN  GenStep(s.pc, op, requests, lastResp, s.result, s.gen, s.conns)

\* `r = self._new_request('GET', ...)`, `f = urlopen(r)`: the request goes out
kernel_report_urlopen ==
    /\ pc = "kernel_report"
    /\ gen.at = "lookup"
    /\ GenStep("kernel_report", op, Append(requests, new_request("GET", gen.path, None)),
               NoResp, NoResult, [gen EXCEPT !.at = "sent"], {"none"})

\* urlopen returns or raises; `with f:` and the first turn of the loop
kernel_report_read ==
    /\ pc = "kernel_report"
    /\ gen.at = "sent"
    /\ \E resp \in StreamResps :
        IF resp.kind = "neterr"
        THEN GenStep("done", op, requests, resp, Raised("URLError"),
                     [gen EXCEPT !.at = "ended"], {"none"})
        ELSE IF ~Is2xx(resp.status)
        THEN GenStep("done", op, requests, resp,
                     [type |-> "raise", exc |-> "HTTPError", status |-> resp.status],
                     [gen EXCEPT !.at = "ended"], {"none"})
        ELSE LET s == kernel_report_loop(gen, split_nl(resp.body.stream), 1)
             IN  GenStep(s.pc, op, requests, resp, s.result, s.gen, s.conns)

\* The consumer stops iterating: GeneratorExit is raised at the yield inside
\* `with f:`, which closes f.  A generator that never ran just ends.
kernel_report_close ==
    /\ pc = "kernel_report"
    /\ gen.at \in {"new", "loop"}
    /\ GenStep("done", op, requests, lastResp, [type |-> "closed"],
               [gen EXCEPT !.at = "ended"],
               IF gen.at = "loop" THEN {"released"} ELSE {"none"})

(***************************************************************************)
(* The multipart encoder and file submission.  A body is a sequence of     *)
(* chunks: text the encoder writes, a formatted scalar value, file bytes.  *)
(***************************************************************************)
Text(s) == [kind |-> "text", v |-> s]

\* os.urandom(16), hex-encoded
Boundaries == {"0f1e2d3c4b5a69788796a5b4c3d2e1f0", "a1b2c3d4e5f60718293a4b5c6d7e8f90"}

Files ==
    { [mode |-> "rb", data |-> "MZ-binary", ascii |-> FALSE],
      [mode |-> "r", data |-> "plain text", ascii |-> TRUE],
      [mode |-> "r", data |-> "caf\\u00e9", ascii |-> FALSE] }

\* `b = file.read(); if isinstance(b, str): b = b.encode('ascii')`
file_bytes(file) ==
    IF file.mode = "r" /\ ~file.ascii THEN Raised("UnicodeEncodeError")
    ELSE Returned([kind |-> "bytes", v |-> file.data])

ScalarField(name, value) == [name |-> name, tuple |-> FALSE, value |-> value]

FileField(name, filename, file) ==
    [name |-> name, tuple |-> TRUE, filename |-> filename, file |-> file]

\* '--{boundary}\r\n'
part_delimiter(boundary) == <<Text("--"), Text(boundary), Text("\r\n")>>

\* the part written for one field, or the error its file raises
encode_part(f, boundary) ==
    IF f.tuple
    THEN LET b == file_bytes(f.file)
         IN  IF b.type = "raise" THEN b
             ELSE Returned(part_delimiter(boundary)
                    \o <<Text("Content-Disposition: form-data; filename=\""), Text(f.filename),
                         Text("\"; name=\""), Text(f.name), Text("\"\r\n\r\n"),
                         b.value, Text("\r\n")>>)
    ELSE Returned(part_delimiter(boundary)
            \o <<Text("Content-Disposition: form-data;name=\""), Text(f.name),
                 Text("\"\r\n\r\n"), [kind |-> "value", v |-> f.value], Text("\r\n")>>)

RECURSIVE encode_parts(_, _)
\* `for field, value in fields.items(): ...`
encode_parts(fields, boundary) ==
    IF fields = <<>> THEN Returned(<<>>)
    ELSE LET first == encode_part(Head(fields), boundary)
         IN  IF first.type = "raise" THEN first
             ELSE LET others == encode_parts(Tail(fields), boundary)
                  IN  IF others.type = "raise" THEN others
                      ELSE Returned(first.value \o others.value)

\* the BytesIO the chunks are written to
BytesIO(chunks) == [bytesio |-> chunks]

\* closing_trailer, were the body left unterminated
closing_trailer_open(boundary) == <<Text("--"), Text(boundary), Text("\r\n")>>

\* '--{0}--\r\n'
closing_trailer(boundary) == <<Text("--"), Text(boundary), Text("--\r\n")>>

\* encode_multipart_formdata, with the boundary os.urandom gave
encode_multipart_formdata(fields, boundary) ==
    LET parts == encode_parts(fields, boundary)
    IN  IF parts.type = "raise" THEN parts
        ELSE Returned([body |-> BytesIO(parts.value \o closing_trailer(boundary)),
                       content_type |-> "multipart/form-data; boundary=" \o boundary])

FieldNames == {"_json", "file", "note", "tag"}

FieldOf(name, file) ==
    IF name = "file" THEN FileField(name, "test.exe", file)
    ELSE IF name = "_json" THEN ScalarField(name, json_dumps([kind |-> "file"]))
    ELSE ScalarField(name, [literal |-> "hello"])

\* ordered mappings: no key twice
FieldLists ==
    { [i \in 1..Len(ns) |-> FieldOf(ns[i], file)] :
        ns \in {t \in SeqsUpTo(FieldNames, MaxFields) :
                    \A i, j \in 1..Len(t) : i # j => t[i] # t[j]},
        file \in Files }

\* a direct call of the encoder
call_encode_multipart_formdata ==
    /\ pc = "idle"
    /\ \E fields \in FieldLists, boundary \in Boundaries :
        Finish([name |-> "encode_multipart_formdata", fields |-> fields,
                   boundary |-> boundary],
                  <<>>, NoResp, encode_multipart_formdata(fields, boundary))

\* the mapping submit_sample_file hands to the encoder
submit_sample_file_fields(filename, file, interactive, profiles) ==
    << ScalarField("_json", json_dumps([kind |-> "file", interactive |-> interactive,
                                         profiles |-> profiles])),
       FileField("file", filename, file) >>

\* Client.submit_sample_file
submit_sample_file ==
    /\ pc = "idle"
    /\ \E filename \in {"test.exe"}, file \in Files, interactive \in BOOLEAN,
       profiles \in ProfileLists, boundary \in Boundaries, resp \in GenericResps :
        LET o == [name |-> "submit_sample_file", filename |-> filename, file |-> file,
                     boundary |-> boundary]
               e == encode_multipart_formdata(
                        submit_sample_file_fields(filename, file, interactive, profiles),
                        boundary)
           IN  IF e.type = "raise" THEN Finish(o, <<>>, NoResp, e)
               ELSE Finish(o,
                           <<add_header(new_request("POST", "/v0/samples", e.value.body),
                                        "Content-Type", e.value.content_type)>>,
                           resp, open_json(resp))

(***************************************************************************)
(* Paginated listings.  triage/pagination.py is not among the sources:     *)
(* the Paginator follows the specification's section 4.3.                  *)
(***************************************************************************)
\* A listing on the server: n items 1..n served in pages of `page`; `eager`
\* servers give a cursor with every full page, the others only when items remain.
Listings == [n : 0..MaxItems, page : 1..MaxPage, eager : BOOLEAN]

\* the page at offset `cursor`
server_page(l, cursor) ==
    LET last == IF cursor + l.page < l.n THEN cursor + l.page ELSE l.n
        items == [i \in 1..(last - cursor) |-> cursor + i]
    IN  [ items |-> items,
          has_next |-> (last < l.n) \/ (l.eager /\ Len(items) = l.page),
          next |-> last ]

\* Paginator.__init__
Paginator(path, sep, max, l) ==
    [ path |-> path, sep |-> sep, max |-> max, buffer |-> <<>>, idx |-> 0,
      fetched |-> FALSE, has_next |-> FALSE, cursor |-> 0, emitted |-> <<>>,
      listing |-> l ]

NewPaginator(o, p) ==
    /\ pc' = "paginator"
    /\ op' = o
    /\ requests' = <<>>
    /\ lastResp' = NoResp
    /\ result' = NoResult
    /\ pag' = p
    /\ UNCHANGED <<token, root_url, held, gen, conn, out, flow>>

Maxes == 0..MaxMax

owned_samples ==
    /\ pc = "idle"
    /\ \E max \in Maxes, l \in Listings :
        NewPaginator([name |-> "owned_samples", max |-> max],
                        Paginator("/v0/samples?subset=owned", "&", max, l))

public_samples ==
    /\ pc = "idle"
    /\ \E max \in Maxes, l \in Listings :
        NewPaginator([name |-> "public_samples", max |-> max],
                        Paginator("/v0/samples?subset=public", "&", max, l))

\* search queries, in pieces
Queries == {<<"family", ":", "emotet", " ", "exe">>}

\* parse.quote_plus of one piece
quote_plus(piece) ==
    IF piece = ":" THEN "%3A" ELSE IF piece = " " THEN "+" ELSE piece

\* parse.urlencode({"query": query})
urlencode_query(query) ==
    "query=" \o Join([i \in 1..Len(query) |-> quote_plus(query[i])])

search ==
    /\ pc = "idle"
    /\ \E query \in Queries, max \in Maxes, l \in Listings :
        NewPaginator([name |-> "search", max |-> max],
                        Paginator("/v0/search?" \o urlencode_query(query), "&", max, l))

\* profiles, were the Paginator given one more than max
profiles_one_more ==
    \E max \in Maxes, l \in Listings :
        /\ pc = "idle"
        /\ NewPaginator([name |-> "profiles", max |-> max],
                        Paginator("/v0/profiles", "?", max + 1, l))

profiles ==
    /\ pc = "idle"
    /\ \E max \in Maxes, l \in Listings :
        NewPaginator([name |-> "profiles", max |-> max],
                        Paginator("/v0/profiles", "?", max, l))

\* the path of the next page request
page_path(p) ==
    IF p.fetched THEN p.path \o p.sep \o "offset=" \o ToString(p.cursor) ELSE p.path

PagStep(nextpc, reqs, res, p) ==
    /\ pc' = nextpc
    /\ requests' = reqs
    /\ result' = res
    /\ pag' = p
    /\ UNCHANGED <<token, root_url, held, op, lastResp, gen, conn, out, flow>>

\* next() on the Paginator
paginator_next ==
    /\ pc = "paginator"
    /\ IF Len(pag.emitted) >= pag.max
       THEN PagStep("done", requests, [type |-> "stop"], pag)
       ELSE IF pag.idx < Len(pag.buffer)
       THEN PagStep("paginator", requests,
                    [type |-> "yield", value |-> pag.buffer[pag.idx + 1]],
                    [pag EXCEPT !.idx = @ + 1, !.emitted = Append(@, pag.buffer[pag.idx + 1])])
       ELSE IF pag.fetched /\ ~pag.has_next
       THEN PagStep("done", requests, [type |-> "stop"], pag)
       ELSE LET page == server_page(pag.listing, pag.cursor)
                reqs == Append(requests, req_json_request("GET", page_path(pag), None))
                p2 == [pag EXCEPT !.fetched = TRUE, !.buffer = page.items,
                                  !.has_next = page.has_next, !.cursor = page.next]
            IN  IF page.items = <<>>
                THEN PagStep("done", reqs, [type |-> "stop"], [p2 EXCEPT !.idx = 0])
                ELSE PagStep("paginator", reqs,
                             [type |-> "yield", value |-> page.items[1]],
                             [p2 EXCEPT !.idx = 1, !.emitted = Append(@, page.items[1])])

\* the consumer stops iterating
paginator_close ==
    /\ pc = "paginator"
    /\ PagStep("done", requests, [type |-> "closed"], pag)

(***************************************************************************)
(* The command line (cli/triage.py): the commands file and archive.        *)
(***************************************************************************)
\* the -o/--output option: not given, "-", or a path
Outputs == {None, [path |-> "-"], [path |-> "out.bin"]}

\* the FILE argument of the command file, in pieces
FileArgs == {<<"memory", "/", "dump.bin">>}

\* the --format option of the command archive
Formats == {"tar", "zip", "rar"}

\* print(v): str(v) and a newline; str() of a bytes object is its repr, b'...'
print(v) == <<[kind |-> "repr", of |-> v], [kind |-> "text", of |-> "\n"]>>

\* `with open(path, "wb") as wf: wf.write(b)`
write_file(files, path, b) ==
    {f \in files : f.path # path} \cup {[path |-> path, data |-> b]}

\* "".join(x for x in file if x not in "\/:*?<>|")
sanitize(file) ==
    Join(SelectSeq(file, LAMBDA x : x \notin {"\\", "/", ":", "*", "?", "<", ">", "|"}))

\* A command ends: the call it made, its outcome, what it printed and wrote.
CliStep(o, reqs, resp, res, o2) ==
    /\ pc' = "done"
    /\ op' = o
    /\ requests' = reqs
    /\ lastResp' = resp
    /\ result' = res
    /\ out' = o2
    /\ UNCHANGED <<token, root_url, held, gen, conn, pag, flow>>

\* get_file after the download: lines 188-193
get_file_effects(file, output, b) ==
    LET printed == IF output # None /\ output.path = "-" THEN print(b) ELSE <<>>
        path == IF output = None THEN sanitize(file) ELSE output.path
    IN  [stdout |-> printed, files |-> write_file({}, path, b)]

\* the command `file SAMPLE TASK FILE [-o OUTPUT]`
get_file ==
    /\ pc = "idle"
    /\ \E sample \in SampleIds, task \in TaskIds, file \in FileArgs, output \in Outputs,
          resp \in GenericResps :
        LET o == [name |-> "get_file", sample_id |-> sample, task_id |-> task,
                  file |-> file, output |-> output]
            c == req_file("GET", "/v0/samples/" \o sample \o "/" \o task \o "/" \o Join(file),
                          resp)
        IN  CliStep(o, <<c.request>>, resp, c.result,
                    IF c.result.type = "raise" THEN NoOut
                    ELSE get_file_effects(file, output, c.result.value))

\* archive after the download: lines 211-218
archive_effects(sample, format, output, b) ==
    IF output # None /\ output.path = "-" THEN [stdout |-> print(b), files |-> {}]
    ELSE IF output # None THEN [stdout |-> <<>>, files |-> write_file({}, output.path, b)]
    ELSE [stdout |-> <<>>, files |-> write_file({}, sample \o "." \o format, b)]

\* the command `archive SAMPLE [-f FORMAT] [-o OUTPUT]`
archive ==
    /\ pc = "idle"
    /\ \E sample \in SampleIds, format \in Formats, output \in Outputs, resp \in GenericResps :
        LET o == [name |-> "archive", sample_id |-> sample, format |-> format,
                  output |-> output]
        IN  IF format \notin {"tar", "zip"}
            THEN CliStep(o, <<>>, NoResp, Returned(None),
                         [stdout |-> <<[kind |-> "text", of |-> "Use --format zip or tar\n"]>>,
                          files |-> {}])
            ELSE LET c == req_file("GET",
                                   "/v0/samples/" \o sample
                                        \o (IF format = "tar" THEN "/archive" ELSE "/archive.zip"),
                                   resp)
                 IN  CliStep(o, <<c.request>>, resp, c.result,
                             IF c.result.type = "raise" THEN NoOut
                             ELSE archive_effects(sample, format, output, c.result.value))

(***************************************************************************)
(* The command line: prompt_select_profile, which `submit -i` and           *)
(* `select-profile` run.  It blocks on the event stream, the static report, *)
(* the profile listing, the user and the set-profile call: one action each. *)
(***************************************************************************)
\* profiles(max=20)
DefaultMax == 20

RECURSIVE Flatten(_)
Flatten(ss) == IF ss = <<>> THEN <<>> ELSE Head(ss) \o Flatten(Tail(ss))

\* a line of the event stream: an event, or a blank line
PromptLines == {<<t, "NL">> : t \in JsonTokens} \cup {<<"NL">>}

PromptStreamResps ==
    {NetErr, HttpResp(404, StreamBody(<<>>))}
        \cup {HttpResp(200, StreamBody(Flatten(ls))) : ls \in SeqsUpTo(PromptLines, MaxEvents)}

\* static["files"]
StaticFiles ==
    LET a == [filename |-> "a.exe", relpath |-> "a.exe", selected |-> TRUE]
        b == [filename |-> "b.dll", relpath |-> "lib/b.dll", selected |-> FALSE]
    IN  {<<>>, <<a>>, <<a, b>>}

StaticResps ==
    {NetErr, HttpResp(500, NotJsonBody), HttpResp(200, JsonBody(EmptyObj))}
        \cup {HttpResp(200, JsonBody([files |-> fs])) : fs \in StaticFiles}

SetProfileResps ==
    {NetErr, HttpResp(200, JsonBody(EmptyObj)),
     HttpResp(404, JsonBody([error |-> "not_found", message |-> "sample missing"]))}

\* what prompt_select_options may return for n options: indices from 0, none twice
Selections(n) ==
    {sel \in SeqsUpTo(0..(n - 1), n) : \A i, j \in 1..Len(sel) : i # j => sel[i] # sel[j]}

\* the listings c.profiles() may be served from
ProfileListings == {l \in Listings : l.n <= MaxProfiles}

\* the profile object behind a listed item
ProfileObj(item) ==
    [id |-> "profile-" \o ToString(item), name |-> "w" \o ToString(item)]

\* print(text)
print_text(o, text) ==
    [o EXCEPT !.stdout = @ \o <<[kind |-> "text", of |-> text], [kind |-> "text", of |-> "\n"]>>]

NewFlow ==
    [at |-> "events", seen |-> <<>>, calls |-> <<>>, bound |-> FALSE, pick |-> <<>>,
     defaultSelection |-> FALSE, profiles |-> <<>>]

\* the call `prompt_select_profile(c, sample)`
prompt_select_profile ==
    /\ pc \in {"idle", "submitted"}
    /\ \E sample \in SampleIds :
        /\ pc = "submitted" => sample = held.id
        /\ pc' = "prompt"
        /\ op' = [name |-> "prompt_select_profile", sample_id |-> sample]
        /\ requests' = <<>>
        /\ lastResp' = NoResp
        /\ result' = NoResult
        /\ gen' = NewGen
        /\ conn' = "none"
        /\ flow' = [NewFlow EXCEPT !.calls = <<"sample_events">>]
        /\ out' = NoOut
        /\ UNCHANGED <<token, root_url, held, pag>>

\* A step of prompt_select_profile ends.
FlowStep(nextpc, reqs, resp, res, g, conns, f, o) ==
    /\ pc' = nextpc
    /\ requests' = reqs
    /\ lastResp' = resp
    /\ result' = res
    /\ gen' = g
    /\ conn' \in conns
    /\ flow' = f
    /\ out' = o
    /\ UNCHANGED <<token, root_url, held, op, pag>>

\* An exception leaves prompt_select_profile, or it returns.
FlowEnds(reqs, resp, res, conns, f, o) ==
    FlowStep("done", reqs, resp, res, None, conns, [f EXCEPT !.at = "ended"], o)

\* the body of `for events in c.sample_events(sample):` for one outcome `s`
\* of next() on the generator
prompt_event(s, reqs, resp) ==
    IF s.result.type = "stop"
    THEN \* the stream is over: the for statement ends and the function goes on
         FlowStep("prompt", reqs, resp, NoResult, None, s.conns,
                  [flow EXCEPT !.at = "static"], out)
    ELSE IF s.result.type = "raise"
    THEN FlowEnds(reqs, resp, s.result, s.conns, flow, out)
    ELSE LET status == s.result.value["status"]
             f == [flow EXCEPT !.seen = Append(@, status)]
         IN  IF status = "pending"
             THEN FlowStep("prompt", reqs, resp, NoResult, s.gen, s.conns, f,
                           print_text(out, "waiting for static analysis to finish"))
             ELSE IF status = "static_analysis"
             THEN \* break: the generator is dropped where it stands
                  FlowStep("prompt", reqs, resp, NoResult, None, Unscoped,
                           [f EXCEPT !.at = "static"], out)
             ELSE IF status = "failed"
             THEN FlowEnds(reqs, resp, Returned(None), Unscoped, f,
                           print_text(out, "the sample is in a failed state"))
             ELSE FlowEnds(reqs, resp, Returned(None), Unscoped, f,
                           print_text(out, "the sample does not need a profile to be selected"))

\* one turn of the for statement: next() on the generator, then the body
prompt_next_event ==
    /\ pc = "prompt"
    /\ flow.at = "events"
    /\ \/ /\ gen.at = "new"
          /\ \E resp \in PromptStreamResps :
                LET rq == <<sample_events_request(op.sample_id)>>
                IN  IF resp.kind = "neterr"
                    THEN FlowEnds(rq, resp, Raised("URLError"), {"none"}, flow, out)
                    ELSE IF ~Is2xx(resp.status)
                    THEN FlowEnds(rq, resp,
                                  [type |-> "raise", exc |-> "HTTPError", status |-> resp.status],
                                  {"none"}, flow, out)
                    ELSE prompt_event(sample_events_loop(gen, resp.body.stream), rq, resp)
       \/ /\ gen.at = "loop"
          /\ prompt_event(sample_events_loop(gen, gen.rest), requests, lastResp)

\* prompt_select_files, with what the user selected
prompt_select_files(files, selection) ==
    IF Len(selection) = 0
    THEN LET chosen == SelectSeq(files, LAMBDA x : x.selected)
         IN  [pick |-> [i \in 1..Len(chosen) |-> chosen[i].relpath], defaultSelection |-> TRUE]
    ELSE [pick |-> [i \in 1..Len(selection) |-> files[selection[i] + 1].relpath],
          defaultSelection |-> FALSE]

\* `static = c.static_report(sample)` and the selection of files
prompt_static_report ==
    /\ pc = "prompt"
    /\ flow.at = "static"
    /\ \E resp \in StaticResps :
        LET c == req_json("GET", "/v0/samples/" \o op.sample_id \o "/reports/static", None, resp)
            reqs == Append(requests, c.request)
            f == [flow EXCEPT !.calls = Append(@, "static_report")]
        IN  IF c.result.type = "raise" THEN FlowEnds(reqs, resp, c.result, {conn}, f, out)
            ELSE IF "files" \notin DOMAIN c.result.value
            THEN FlowEnds(reqs, resp, [type |-> "raise", exc |-> "KeyError", key |-> "files"],
                          {conn}, f, out)
            ELSE LET files == c.result.value["files"]
                 IN  IF Len(files) >= 1
                     THEN \E selection \in Selections(Len(files)) :
                            LET r == prompt_select_files(files, selection)
                            IN  FlowStep("prompt", reqs, resp, NoResult, gen, {conn},
                                         [f EXCEPT !.at = "profiles", !.bound = TRUE,
                                                   !.pick = r.pick,
                                                   !.defaultSelection = r.defaultSelection],
                                         out)
                     ELSE \* pick and defaultSelection stay unassigned
                          FlowStep("prompt", reqs, resp, NoResult, gen, {conn},
                                   [f EXCEPT !.at = "profiles"], out)

RECURSIVE drain(_, _)
\* a Paginator iterated to its end: [x for x in c.profiles()]
drain(p, reqs) ==
    IF Len(p.emitted) >= p.max THEN [pag |-> p, requests |-> reqs]
    ELSE IF p.idx < Len(p.buffer)
    THEN drain([p EXCEPT !.idx = @ + 1, !.emitted = Append(@, p.buffer[p.idx + 1])], reqs)
    ELSE IF p.fetched /\ ~p.has_next THEN [pag |-> p, requests |-> reqs]
    ELSE LET page == server_page(p.listing, p.cursor)
             reqs2 == Append(reqs, req_json_request("GET", page_path(p), None))
             p2 == [p EXCEPT !.fetched = TRUE, !.buffer = page.items, !.idx = 0,
                             !.has_next = page.has_next, !.cursor = page.next]
         IN  IF page.items = <<>> THEN [pag |-> p2, requests |-> reqs2]
             ELSE drain(p2, reqs2)

\* `profiles = [x for x in c.profiles()]`, then the test of defaultSelection
prompt_profiles ==
    /\ pc = "prompt"
    /\ flow.at = "profiles"
    /\ \E l \in ProfileListings :
        LET d == drain(Paginator("/v0/profiles", "?", DefaultMax, l), requests)
            listed == [i \in 1..Len(d.pag.emitted) |-> ProfileObj(d.pag.emitted[i])]
            f == [flow EXCEPT !.calls = Append(@, "profiles"), !.profiles = listed]
        IN  IF ~flow.bound
            THEN FlowEnds(d.requests, lastResp, Raised("UnboundLocalError"), {conn}, f, out)
            ELSE FlowStep("prompt", d.requests, lastResp, NoResult, gen, {conn},
                          [f EXCEPT !.at = "select"], out)

\* prompt_select_profiles_for_files, with what the user selected for each pick
prompt_select_profiles_for_files(listed, pick, selections) ==
    Flatten([i \in 1..Len(pick) |->
                [k \in 1..Len(selections[i]) |->
                    [profile |-> listed[selections[i][k] + 1]["id"], pick |-> pick[i]]]])

\* the set-profile call `method` with `data` ends prompt_select_profile
prompt_call(method, data, resp, o) ==
    LET c == req_json("POST", profile_path(op.sample_id), data, resp)
    IN  FlowEnds(Append(requests, c.request), resp,
                 IF c.result.type = "raise" THEN c.result ELSE Returned(None),
                 {conn}, [flow EXCEPT !.calls = Append(@, method)], o)

\* lines 95-108: automatic profiles, or the user's choice of profiles
prompt_set_profile ==
    /\ pc = "prompt"
    /\ flow.at = "select"
    /\ \E resp \in SetProfileResps :
        IF flow.defaultSelection \/ Len(flow.profiles) = 0
        THEN prompt_call("set_sample_profile_automatically",
                         set_sample_profile_automatically_body(flow.pick), resp,
                         IF Len(flow.profiles) = 0
                         THEN print_text(out, "No profiles are available, using automatic profiles instead.")
                         ELSE out)
        ELSE \E selections \in [1..Len(flow.pick) -> Selections(Len(flow.profiles))] :
                LET profile_selections ==
                        prompt_select_profiles_for_files(flow.profiles, flow.pick, selections)
                IN  IF Len(profile_selections) = 0
                    THEN prompt_call("set_sample_profile_automatically",
                                     set_sample_profile_automatically_body(flow.pick), resp,
                                     print_text(out, "Skipping profile selection.. choosing automatically"))
                    ELSE prompt_call("set_sample_profile",
                                     set_sample_profile_body(profile_selections), resp, out)

(***************************************************************************)
(* The caller gets the outcome.  Nothing of an invocation outlives it,     *)
(* except that the caller of a submission may take the new sample's id     *)
(* and go straight on to select its profile (cli: submit --interactive).   *)
(***************************************************************************)
Forget ==
    /\ op' = [name |-> "none"]
    /\ requests' = <<>>
    /\ lastResp' = NoResp
    /\ result' = NoResult
    /\ gen' = None
    /\ conn' = "none"
    /\ pag' = None
    /\ out' = NoOut
    /\ flow' = NoFlow
    /\ UNCHANGED <<token, root_url>>

caller_resumes ==
    /\ pc = "done"
    /\ pc' = "idle"
    /\ held' = NoHeld
    /\ Forget

\* `r = c.submit_sample_file(...)` ... `prompt_select_profile(c, r["id"])`
caller_keeps_id ==
    /\ pc = "done"
    /\ op.name \in {"submit_sample_file", "submit_sample_url"}
    /\ result.type = "return"
    /\ "id" \in DOMAIN result.value
    /\ pc' = "submitted"
    /\ held' = [id |-> result.value["id"], by |-> op.name]
    /\ Forget

(***************************************************************************)
(* The specification.                                                      *)
(***************************************************************************)
Init ==
    /\ \E tok \in Tokens, url \in RootUrlArgs :
        /\ token = ClientInit(tok, url).token
        /\ root_url = ClientInit(tok, url).root_url
    /\ pc = "idle"
    /\ held = NoHeld
    /\ op = [name |-> "none"]
    /\ requests = <<>>
    /\ lastResp = NoResp
    /\ result = NoResult
    /\ gen = None
    /\ conn = "none"
    /\ pag = None
    /\ out = NoOut
    /\ flow = NoFlow

Next ==
    \/ submit_sample_url
    \/ set_sample_profile
    \/ set_sample_profile_automatically
    \/ sample_by_id
    \/ delete_sample
    \/ static_report
    \/ overview_report
    \/ task_report
    \/ create_profile
    \/ delete_profile
    \/ sample_task_file
    \/ sample_archive_tar
    \/ sample_archive_zip
    \/ sample_events
    \/ sample_events_next
    \/ sample_events_close
    \/ kernel_report
    \/ kernel_report_next
    \/ kernel_report_urlopen
    \/ kernel_report_read
    \/ kernel_report_close
    \/ call_encode_multipart_formdata
    \/ submit_sample_file
    \/ owned_samples
    \/ public_samples
    \/ search
    \/ profiles
    \/ paginator_next
    \/ paginator_close
    \/ prompt_select_profile
    \/ prompt_next_event
    \/ prompt_static_report
    \/ prompt_profiles
    \/ prompt_set_profile
    \/ get_file
    \/ archive
    \/ caller_resumes
    \/ caller_keeps_id

Spec == Init /\ [][Next]_vars

(***************************************************************************)
(* The claims.                                                             *)
(***************************************************************************)
RECURSIVE ResponseLines(_)
\* the lines of a body, as iterating the response reads them
ResponseLines(b) ==
    IF b = <<>> THEN <<>>
    ELSE <<SubSeq(b, 1, readline_len(b))>>
            \o ResponseLines(SubSeq(b, readline_len(b) + 1, Len(b)))

MinOf(S) == CHOOSE x \in S : \A y \in S : x <= y

StreamOps == {"sample_events", "kernel_report"}

PaginatedOps == {"owned_samples", "public_samples", "search", "profiles"}

\* C1: the events of sample_events end normally at the first line that is
\* blank after trimming: the lines before it are decoded and yielded, the blank
\* line raises nothing, and neither it nor any later line is decoded.
C1_EventsEndAtFirstBlankLine ==
    (op.name = "sample_events" /\ lastResp.kind = "http" /\ Is2xx(lastResp.status)) =>
        LET lines == ResponseLines(lastResp.body.stream)
            blanks == {i \in 1..Len(lines) : strip(lines[i]) = <<>>}
        IN  blanks # {} =>
                LET k == MinOf(blanks)
                IN  /\ Len(gen.decoded) < k
                    /\ ( /\ pc = "done"
                         /\ result.type # "closed"
                         /\ \A i \in 1..(k - 1) : json_loads(lines[i]).type = "return" )
                       => /\ result.type = "stop"
                          /\ gen.yielded = [i \in 1..(k - 1) |-> json_loads(lines[i]).value]

\* C2: when a streaming operation has ended (normal end, the consumer
\* stopping early, a decode failure), its connection, once opened, is released.
C2_StreamConnectionReleased ==
    (pc = "done" /\ op.name \in StreamOps) => conn # "open"

KernelLogUrl(file) ==
    root_url \o "/v0/samples/" \o op.sample_id \o "/" \o op.task_id \o "/logs/" \o file

OverviewUrl == root_url \o "/v1/samples/" \o op.sample_id \o "/overview.json"

\* kernel_report has found its task and is past the choice of the endpoint
KernelTaskFound ==
    op.name = "kernel_report" /\ gen.task # None /\ gen.at \in {"sent", "loop", "ended"}

UnsupportedPlatform == [type |-> "raise", exc |-> "ValueError", msg |-> "Platform not supported"]

TaskNotFound == [type |-> "raise", exc |-> "ValueError", msg |-> "Task does not exist"]

LogRequestTo(file) ==
    Len(requests) = 2 /\ requests[2].method = "GET" /\ requests[2].url = KernelLogUrl(file)

\* C3 as stated: a platform containing "linux" goes to stahp.json, one
\* containing "windows" to onemon.json, any other fails as unsupported with no
\* log request.
C3_PlatformSelectsEndpoint ==
    KernelTaskFound =>
        LET plat == gen.task.platform
        IN  /\ StrIn(Needle_linux, plat) => LogRequestTo("stahp.json")
            /\ StrIn(Needle_windows, plat) => LogRequestTo("onemon.json")
            /\ (~StrIn(Needle_linux, plat) /\ ~StrIn(Needle_windows, plat))
                 => (Len(requests) = 1 /\ result = UnsupportedPlatform)

\* C3, amended: a platform containing "windows" goes to onemon.json; one that
\* contains "linux" and not "windows" goes to stahp.json; any other fails as
\* unsupported with no log request.
C3_WindowsTestedFirst ==
    KernelTaskFound =>
        LET plat == gen.task.platform
        IN  IF StrIn(Needle_windows, plat) THEN LogRequestTo("onemon.json")
            ELSE IF StrIn(Needle_linux, plat) THEN LogRequestTo("stahp.json")
            ELSE Len(requests) = 1 /\ result = UnsupportedPlatform /\ pc = "done"

C3_Witness ==
    /\ KernelTaskFound
    /\ gen.task.platform = PlatBoth
    /\ LogRequestTo("onemon.json")

\* the overview answered, and none of its tasks has the requested name
NoSuchTask ==
    /\ op.name = "kernel_report"
    /\ lastResp.kind = "http"
    /\ Is2xx(lastResp.status)
    /\ "json" \in DOMAIN lastResp.body
    /\ lastResp.body.json
    /\ "tasks" \in DOMAIN lastResp.body.obj
    /\ \A i \in 1..Len(lastResp.body.obj["tasks"]) :
            lastResp.body.obj["tasks"][i].name # op.task_id

\* C4: kernel_report issues the overview request before any log request, and
\* when no task of the overview has the requested name it fails with "task not
\* found", having issued the overview request and nothing else.
C4_OverviewBeforeLog ==
    op.name = "kernel_report" =>
        /\ Len(requests) <= 2
        /\ Len(requests) >= 1 => (requests[1].method = "GET" /\ requests[1].url = OverviewUrl)
        /\ Len(requests) = 2 =>
                requests[2].url \in {KernelLogUrl("onemon.json"), KernelLogUrl("stahp.json")}
        /\ NoSuchTask => (pc = "done" /\ result = TaskNotFound /\ Len(requests) = 1)

C4_Witness ==
    /\ NoSuchTask
    /\ lastResp.body.obj["tasks"] # <<>>
    /\ pc = "done"
    /\ result = TaskNotFound
    /\ Len(requests) = 1

JsonOps ==
    {"submit_sample_file", "submit_sample_url", "set_sample_profile",
     "set_sample_profile_automatically", "sample_by_id", "delete_sample", "static_report",
     "overview_report", "task_report", "create_profile", "delete_profile"}

\* a JSON operation has ended on a non-2xx answer
JsonOpRefused ==
    /\ pc = "done"
    /\ op.name \in JsonOps
    /\ lastResp.kind = "http"
    /\ ~Is2xx(lastResp.status)

\* C5: a JSON operation answered with a non-2xx status raises ServerError with
\* the HTTP status and the body's error and message fields, its string form is
\* "triage: <status> <kind>: <message>", and no other error escapes.
C5_Non2xxRaisesServerError ==
    JsonOpRefused =>
        /\ result.type = "raise"
        /\ result.exc = "ServerError"
        /\ result.status = lastResp.status
        /\ lastResp.body.json
        /\ {"error", "message"} \subseteq DOMAIN lastResp.body.obj
        /\ result.kind = lastResp.body.obj["error"]
        /\ result.message = lastResp.body.obj["message"]
        /\ ServerError_str(result)
              = "triage: " \o ToString(lastResp.status) \o " " \o lastResp.body.obj["error"]
                    \o ": " \o lastResp.body.obj["message"]

\* the Client methods that are one call of _req_json, _req_file or urlopen
SingleCallOps ==
    JsonOps \cup {"sample_task_file", "sample_archive_tar", "sample_archive_zip",
                  "sample_events"}

\* C6 as stated: every Client method that is not paginated, kernel_report
\* included, makes at most one request per invocation.
C6_AtMostOneRoundTrip ==
    op.name \in (SingleCallOps \cup {"kernel_report"}) => Len(requests) <= 1

\* C6, amended: kernel_report makes at most two requests, the overview and
\* then one log connection; every other operation that is not paginated makes
\* at most one; a paginated listing makes none before it is iterated; and no
\* request is made twice.
C6_OneAttemptEach ==
    /\ op.name \in SingleCallOps => Len(requests) <= 1
    /\ op.name = "kernel_report" =>
            /\ Len(requests) <= 2
            /\ Len(requests) >= 1 => requests[1].url = OverviewUrl
            /\ Len(requests) = 2 => requests[2].url # OverviewUrl
    /\ (op.name \in PaginatedOps /\ ~pag.fetched) => requests = <<>>
    /\ \A i, j \in 1..Len(requests) : i # j => requests[i].url # requests[j].url

C6_Witness ==
    /\ pc = "done"
    /\ op.name = "kernel_report"
    /\ Len(requests) = 2
    /\ Len(gen.yielded) >= 1

UserAgent == "Triage Python Client/alpha Python/3.8.5"

\* C7 as stated: every request carries Authorization: Bearer <token> and the
\* User-Agent header, and no other header.
C7_OnlyTwoHeaders ==
    \A i \in 1..Len(requests) :
        /\ DOMAIN requests[i].headers = {"Authorization", "User-Agent"}
        /\ requests[i].headers["Authorization"] = "Bearer " \o token
        /\ requests[i].headers["User-Agent"] = UserAgent

\* C7, amended: every request carries Authorization: Bearer <token> and the
\* User-Agent header; a request with a body carries Content-Type as well
\* (application/json, or the multipart value for a file submission); a request
\* without a body carries no third header.
C7_HeadersOfEveryRequest ==
    \A i \in 1..Len(requests) :
        LET r == requests[i]
        IN  /\ {"Authorization", "User-Agent"} \subseteq DOMAIN r.headers
            /\ DOMAIN r.headers \subseteq {"Authorization", "User-Agent", "Content-Type"}
            /\ r.headers["Authorization"] = "Bearer " \o token
            /\ r.headers["User-Agent"] = UserAgent
            /\ "Content-Type" \in DOMAIN r.headers <=> r.data # None
            /\ "Content-Type" \in DOMAIN r.headers =>
                    r.headers["Content-Type"] =
                        IF op.name = "submit_sample_file"
                        THEN "multipart/form-data; boundary=" \o op.boundary
                        ELSE "application/json"

C7_Witness ==
    /\ pc = "done"
    /\ token = "tokenB"
    /\ op.name = "submit_sample_url"
    /\ Len(requests) = 1
    /\ requests[1].headers["Authorization"] = "Bearer tokenB"
    /\ "Content-Type" \in DOMAIN requests[1].headers

CeilDiv(a, b) == (a + b - 1) \div b

MinInt(a, b) == IF a < b THEN a ELSE b

\* a paginated listing has been iterated to its end
PaginatorExhausted ==
    pc = "done" /\ op.name \in PaginatedOps /\ result.type = "stop"

\* C8 as stated: min(N, max) items in the server's order, none repeated,
\* ceil(observed_items / page_size) page requests, and an empty listing yields
\* nothing with exactly one request.
C8_CeilOfObserved ==
    PaginatorExhausted =>
        LET y == MinInt(pag.listing.n, op.max)
        IN  /\ pag.emitted = [i \in 1..y |-> i]
            /\ Len(requests) = CeilDiv(y, pag.listing.page)
            /\ pag.listing.n = 0 => Len(requests) = 1

\* C8, amended: min(N, max) items in the server's order, none repeated; no
\* request when max = 0; one request when the listing is empty and max > 0;
\* otherwise ceil(observed_items / page_size) requests, and one more (answered
\* with an empty page) when max > N and the server gave a cursor with a full
\* last page.
C8_PaginatorYieldAndRequests ==
    PaginatorExhausted =>
        LET n == pag.listing.n
            y == MinInt(n, op.max)
        IN  /\ pag.emitted = [i \in 1..y |-> i]
            /\ Len(requests) =
                 IF op.max = 0 THEN 0
                 ELSE IF n = 0 THEN 1
                 ELSE CeilDiv(y, pag.listing.page)
                        + (IF op.max > n /\ pag.listing.eager /\ n % pag.listing.page = 0
                           THEN 1 ELSE 0)

C8_Witness ==
    /\ PaginatorExhausted
    /\ op.name = "profiles"
    /\ op.max = 3
    /\ pag.listing.n = 4
    /\ pag.listing.page = 2
    /\ Len(requests) = 2
    /\ pag.emitted = <<1, 2, 3>>

IsText(c, t) == c.kind = "text" /\ c.v = t

\* where the parts of a body begin: '--<boundary>\r\n'
DelimiterStarts(b, boundary) ==
    {i \in 1..(Len(b) - 2) :
        IsText(b[i], "--") /\ IsText(b[i + 1], boundary) /\ IsText(b[i + 2], "\r\n")}

\* where '--<boundary>--\r\n' occurs in a body
TrailerStarts(b, boundary) ==
    {i \in 1..(Len(b) - 2) :
        IsText(b[i], "--") /\ IsText(b[i + 1], boundary) /\ IsText(b[i + 2], "--\r\n")}

\* the field name in the part that begins at i
PartName(b, i) ==
    IF IsText(b[i + 3], "Content-Disposition: form-data;name=\"") THEN b[i + 4].v
    ELSE b[i + 6].v

\* the body has one part per name, in the order of the names, and ends with
\* its only closing trailer
WellFormedBody(b, names, boundary) ==
    LET starts == DelimiterStarts(b, boundary)
    IN  /\ Cardinality(starts) = Len(names)
        /\ \A i \in starts : PartName(b, i) = names[Cardinality({j \in starts : j <= i})]
        /\ TrailerStarts(b, boundary) = {Len(b) - 2}

\* C9: encode_multipart_formdata emits one part per field in the mapping's
\* order, each introduced by the boundary delimiter, then exactly one closing
\* trailer as the last bytes; the content type names the same boundary; a file
\* submission sends the _json part, then the file part.
C9_MultipartBody ==
    /\ (op.name = "encode_multipart_formdata" /\ result.type = "return") =>
            /\ WellFormedBody(result.value.body.bytesio,
                              [i \in 1..Len(op.fields) |-> op.fields[i].name], op.boundary)
            /\ result.value.content_type = "multipart/form-data; boundary=" \o op.boundary
    /\ (op.name = "submit_sample_file" /\ requests # <<>>) =>
            /\ Len(requests) = 1
            /\ WellFormedBody(requests[1].data.bytesio, <<"_json", "file">>, op.boundary)
            /\ requests[1].headers["Content-Type"]
                    = "multipart/form-data; boundary=" \o op.boundary

C9_Witness ==
    /\ op.name = "encode_multipart_formdata"
    /\ result.type = "return"
    /\ Len(op.fields) = 3
    /\ op.fields[1].name = "note"
    /\ op.fields[2].name = "file"
    /\ op.fields[3].name = "_json"
    /\ Len(result.value.body.bytesio) = 29

\* C10: set_sample_profile_automatically sends auto = true with a pick key and
\* no profiles key, set_sample_profile sends auto = false with a profiles key
\* and no pick key, both as one POST to /v0/samples/{id}/profile, for any
\* sample id, one just returned by a submission included.
C10_ProfileBodiesExclusive ==
    (pc = "done" /\ op.name \in {"set_sample_profile", "set_sample_profile_automatically"}) =>
        /\ Len(requests) = 1
        /\ requests[1].method = "POST"
        /\ requests[1].url = root_url \o "/v0/samples/" \o op.sample_id \o "/profile"
        /\ LET body == requests[1].data.json_text_of
           IN  IF op.name = "set_sample_profile_automatically"
               THEN DOMAIN body = {"auto", "pick"} /\ body["auto"] = TRUE
               ELSE DOMAIN body = {"auto", "profiles"} /\ body["auto"] = FALSE

C10_Witness ==
    /\ pc = "done"
    /\ op.name = "set_sample_profile_automatically"
    /\ held.by = "submit_sample_file"
    /\ op.sample_id = held.id
    /\ DOMAIN requests[1].data.json_text_of = {"auto", "pick"}
RawOps == {"sample_task_file", "sample_archive_tar", "sample_archive_zip"}

\* a raw-byte operation has ended on a non-2xx answer
RawOpRefused ==
    /\ pc = "done"
    /\ op.name \in RawOps
    /\ lastResp.kind = "http"
    /\ ~Is2xx(lastResp.status)

\* C11: a raw-byte operation answered with a non-2xx status raises the HTTP
\* error itself, with the status and the body as received: the body is not
\* decoded as JSON and no ServerError is raised, whatever the body holds.
C11_RawErrorPropagates ==
    RawOpRefused =>
        /\ result.type = "raise"
        /\ result.exc = "HTTPError"
        /\ result.status = lastResp.status
        /\ result.body = lastResp.body
        /\ Len(requests) = 1

C11_Witness ==
    /\ RawOpRefused
    /\ op.name = "sample_archive_zip"
    /\ lastResp.status = 404
    /\ lastResp.body = JsonBody([error |-> "not_found", message |-> "sample missing"])
    /\ result.exc = "HTTPError"
\* the log of kernel_report has been received
KernelLogReceived ==
    /\ op.name = "kernel_report"
    /\ Len(requests) = 2
    /\ lastResp.kind = "http"
    /\ Is2xx(lastResp.status)
    /\ "stream" \in DOMAIN lastResp.body

\* the first entry that is blank or is no JSON, or one past the last entry
FirstStop(entries) ==
    MinOf({i \in 1..Len(entries) :
                strip(entries[i]) = <<>> \/ json_loads(entries[i]).type = "raise"}
            \cup {Len(entries) + 1})

\* C12: kernel_report yields the entries of the log as decoded JSON values,
\* one per line, in the order sent; it stops at the first line that is blank
\* after trimming and decodes no later line; a malformed line raises the
\* decode error to the caller and nothing after it is yielded.
C12_KernelEntriesInOrder ==
    KernelLogReceived =>
        LET entries == split_nl(lastResp.body.stream)
            k == FirstStop(entries)
            blank == k > Len(entries) \/ strip(entries[k]) = <<>>
        IN  /\ Len(gen.yielded) < k
            /\ gen.yielded = [i \in 1..Len(gen.yielded) |-> json_loads(entries[i]).value]
            /\ Len(gen.decoded) <= (IF blank THEN k - 1 ELSE k)
            /\ gen.decoded = [i \in 1..Len(gen.decoded) |-> entries[i]]
            /\ (pc = "done" /\ result.type # "closed") =>
                    /\ Len(gen.yielded) = k - 1
                    /\ result = (IF blank THEN [type |-> "stop"] ELSE Raised("JSONDecodeError"))
            /\ (pc = "kernel_report" /\ result.type = "yield") =>
                    result.value = gen.yielded[Len(gen.yielded)]

C12_Witness ==
    /\ KernelLogReceived
    /\ pc = "done"
    /\ lastResp.body.stream = <<"J2", "NL", "NL", "J1">>
    /\ result = [type |-> "stop"]
    /\ gen.yielded = <<[status |-> "static_analysis"]>>
    /\ Len(gen.decoded) = 1

CliDownloads == {"get_file", "archive"}

\* a download command has received the bytes
Downloaded ==
    pc = "done" /\ op.name \in CliDownloads /\ result.type = "return" /\ requests # <<>>

\* C13: in the commands file and archive, with the output option "-" the
\* downloaded bytes are copied to standard output and no local file is created
\* or written; with a path as the output option the bytes are written to that
\* path only.
C13_OutputDashOrPath ==
    (Downloaded /\ op.output # None) =>
        IF op.output.path = "-"
        THEN /\ out.stdout = <<[kind |-> "bytes", of |-> result.value]>>
             /\ out.files = {}
        ELSE /\ out.stdout = <<>>
             /\ out.files = {[path |-> op.output.path, data |-> result.value]}

\* the set-profile requests prompt_select_profile has issued
SetProfileRequests ==
    {i \in 1..Len(requests) :
        /\ requests[i].method = "POST"
        /\ requests[i].url = root_url \o "/v0/samples/" \o op.sample_id \o "/profile"}

\* C14: prompt_select_profile issues at most one set-profile request (so never
\* both kinds), issues it only after an event with status static_analysis has
\* been observed, and when the first event that is not pending is failed or
\* any other status it returns having requested nothing but the events.
C14_PromptSelectProfile ==
    op.name = "prompt_select_profile" =>
        /\ Cardinality(SetProfileRequests) <= 1
        /\ SetProfileRequests # {} =>
                \E i \in 1..Len(flow.seen) : flow.seen[i] = "static_analysis"
        /\ (\E i \in 1..Len(flow.seen) : flow.seen[i] \notin {"pending", "static_analysis"}) =>
                /\ pc = "done"
                /\ result = Returned(None)
                /\ Len(requests) = 1
                /\ flow.calls = <<"sample_events">>

====
